---- MODULE Spec2Model ----
(***************************************************************************)
(* A model of mca-rs: the region container (src/src/region.rs), the chunk  *)
(* payload decoder (src/src/chunks/chunk.rs) and the chunk / section       *)
(* accessors (src/src/chunks/chunk.rs, src/src/chunks/section.rs).         *)
(*                                                                         *)
(* Every public operation is a pure function of its input, so each one is  *)
(* an operator computed the way the code computes it, and one action       *)
(* applies it to an input drawn by Init.  A result is a record             *)
(*   [kind |-> "Ok", ...], [kind |-> "Err", err |-> e] or                  *)
(*   [kind |-> "Panic", at |-> place]   (the thread unwinds: no value).    *)
(*                                                                         *)
(* Integer widths: usize is 64 bits.  Arithmetic whose overflow depends on *)
(* the build profile (overflow checks on in "debug", off in "release") is  *)
(* modelled under both profiles; `build` is chosen by Init.                *)
(***************************************************************************)
EXTENDS Integers, Sequences, FiniteSets, TLC

VARIABLES
    build,          \* "debug" | "release": are overflow checks compiled in
    bytes,          \* the input of parse_chunk
    parsed,         \* the outcome of parse_chunk(bytes)
    region_bytes,   \* the input of Region::parse_bytes
    region,         \* the outcome of Region::parse_bytes(region_bytes)
    counted,        \* the last outcome of Region::count_chunks
    looked_up,      \* the last call of Region::get_chunk and its outcome
    chunk,          \* the Chunk the accessors are called on
    y_range,        \* the last outcome of Chunk::get_y_range
    got             \* the last call of Chunk::get and its outcome

vars == <<build, bytes, parsed, region_bytes, region, counted, looked_up,
          chunk, y_range, got>>

----------------------------------------------------------------------------
(* Results *)

NotCalled == [kind |-> "None"]
Err(e) == [kind |-> "Err", err |-> e]
Panic(place) == [kind |-> "Panic", at |-> place]
NoField == [kind |-> "NoField"]
Builds == {"debug", "release"}

----------------------------------------------------------------------------
(* Program constants *)

\* blocks of a section: the unpacking loop runs 4096 times
SectionBlocks == 4096
\* bits of one `data` long
WordBits == 64
\* the smallest bits_per_index
MinBits == 4
\* the chunk payload header: 4 length bytes and the compression tag
HeaderLen == 5
COMPRESSION_GZIP == 1
COMPRESSION_ZLIB == 2
COMPRESSION_RAW == 3

----------------------------------------------------------------------------
(* 64-bit words.  TLC's integers are 32 bits wide, so a u64 is the tuple of *)
(* its four 16-bit limbs, least significant first.                         *)

\* limbs of a u64
Limbs == 4
LimbBits == WordBits \div Limbs
ZeroWord == [q \in 1..Limbs |-> 0]

\* ((long >> bit_offset) & mask) as usize, for a mask 2^m - 1 with m <= 16
\* (x & (2^m - 1) = x % 2^m): the bits come from at most two limbs.
ShrMask(long, bit_offset, mask) ==
    LET q == bit_offset \div LimbBits
        r == bit_offset % LimbBits
        lo == long[q + 1] \div (2 ^ r)
        hi == IF q + 2 <= Limbs THEN long[q + 2] % (mask + 1) ELSE 0
    IN (lo + hi * (2 ^ (LimbBits - r))) % (mask + 1)

\* the number of significant bits of n: usize::BITS - n.leading_zeros()
RECURSIVE BitLength(_)
BitLength(n) == IF n = 0 THEN 0 ELSE 1 + BitLength(n \div 2)

Max(a, b) == IF a >= b THEN a ELSE b

----------------------------------------------------------------------------
(* The decoded document.  The tree-format parser and the codecs are        *)
(* external: a payload body is described by the format it is really        *)
(* encoded in and the document it holds, a document by the fields the      *)
(* decoder reads, and a `data` long array by the indices packed in it.     *)

BadNbt == [kind |-> "BadNbt"]
\* get_field!(input, name, as_type): the field is there and has the type
HasField(field, type) == field.kind = type

\* ceil(log2(p)) and the spec's bits_per_index = max(4, ceil(log2(p)))
RECURSIVE CeilLog2(_)
CeilLog2(p) == IF p <= 1 THEN 0 ELSE 1 + CeilLog2((p + 1) \div 2)
SpecBits(p) == Max(MinBits, CeilLog2(p))
\* indices per word when no index spans two words
PerWord(b) == WordBits \div b
\* words that hold SectionBlocks indices
PackedLen(p) == (SectionBlocks + PerWord(SpecBits(p)) - 1) \div PerWord(SpecBits(p))

\* the i-th (from 0) index a section's data was packed from
OrigIndex(sec, i) ==
    IF i = sec.data.bad THEN sec.palette.len
    ELSE (sec.data.a * i + sec.data.c) % sec.palette.len

\* the part of field f (bits [f*b, f*b+b) of word w) that lies in limb q
FieldInLimb(sec, b, w, q, f) ==
    LET i == w * PerWord(b) + f
        v == IF f < PerWord(b) /\ i < SectionBlocks THEN OrigIndex(sec, i) ELSE 0
        shift == f * b - (q - 1) * LimbBits
    IN IF shift >= 0 THEN (v * (2 ^ shift)) % (2 ^ LimbBits)
       ELSE v \div (2 ^ (0 - shift))

RECURSIVE SumFields(_, _, _, _, _, _)
SumFields(sec, b, w, q, f, last) ==
    IF f > last THEN 0
    ELSE FieldInLimb(sec, b, w, q, f) + SumFields(sec, b, w, q, f + 1, last)

\* word w (from 0) of the packed data: lowest bits first, no index spanning
\* two words, the leftover high bits zero
PackWord(sec, w) ==
    LET b == SpecBits(sec.palette.len)
    IN [q \in 1..Limbs |->
           SumFields(sec, b, w, q, ((q - 1) * LimbBits) \div b,
                     (q * LimbBits - 1) \div b)]

\* the long array the tree-format parser yields for a section's `data`
MakeData(sec) ==
    IF sec.palette.len < 2 THEN [w \in 1..sec.data.n |-> ZeroWord]
    ELSE [w \in 1..sec.data.n |-> PackWord(sec, w - 1)]

----------------------------------------------------------------------------
(* parse_chunk (src/src/chunks/chunk.rs) *)

\* bytes.len() < 5
HeaderMissing(len) == len < HeaderLen

\* bytes.len() < len + 4
BodyTooShort(len, L) == len < L + 4

\* &body[..len], body being the bytes after the 5-byte header: the slice
\* panics when it ends past the end of body
BodySliceInBounds(len, L) == L <= len - HeaderLen

\* the match on compression_format: the document the decompressed bytes hold
Decompress(tag, body) ==
    IF tag = COMPRESSION_GZIP \/ tag = COMPRESSION_ZLIB
    THEN IF body.format = tag THEN [kind |-> "Ok", doc |-> body.doc]
         ELSE Err("DecompressionFailed")
    ELSE IF tag = COMPRESSION_RAW
    THEN [kind |-> "Ok", doc |-> IF body.format = tag THEN body.doc ELSE BadNbt]
    ELSE Err("UnsupportedCompression")

\* palette_len == 0 && palette_len > 4096
PaletteRejected(palette_len) == palette_len = 0 /\ palette_len > SectionBlocks

\* max(4, (usize::BITS - (palette_len - 1).leading_zeros()) as usize); the
\* subtraction overflows for palette_len = 0: a panic with overflow checks,
\* usize::MAX (no leading zero) without
BitsPerIndex(palette_len, bld) ==
    IF palette_len = 0
    THEN IF bld = "debug" THEN Panic("palette_len - 1") ELSE [kind |-> "Ok", bits |-> WordBits]
    ELSE [kind |-> "Ok", bits |-> Max(MinBits, BitLength(palette_len - 1))]

\* data.len() < bits_per_index * 64
DataTooShort(data_len, bits_per_index) == data_len < bits_per_index * WordBits

\* (1u64 << bits_per_index) - 1; a shift by 64 overflows: a panic with
\* overflow checks, a shift by 64 % 64 = 0 without
Mask(bits_per_index, bld) ==
    IF bits_per_index >= WordBits
    THEN IF bld = "debug" THEN Panic("1u64 << bits_per_index")
         ELSE [kind |-> "Ok", mask |-> (2 ^ (bits_per_index % WordBits)) - 1]
    ELSE [kind |-> "Ok", mask |-> (2 ^ bits_per_index) - 1]

\* the word-boundary test off by one: an index that ends exactly at bit 64
\* is taken to cross
CrossesWordInclusive(bit_offset, bits_per_index) == bit_offset + bits_per_index >= WordBits

\* bit_offset + bits_per_index > 64
CrossesWord(bit_offset, bits_per_index) == bit_offset + bits_per_index > WordBits

\* the range check left out of the skip branch
SkipIndexUnchecked(index, palette_len) == FALSE

\* index >= palette_len, for the first index of a word entered after a skip
SkipIndexInvalid(index, palette_len) == index >= palette_len

\* index >= palette_len, for every other index
IndexInvalid(index, palette_len) == index >= palette_len

\* One iteration of `for _ in 0..4096`.  st = [long_idx, bit_offset, blocks,
\* ret]; ret is NotCalled while the loop runs, and the early return or the
\* panic that ended it otherwise.  A block is the palette position it refers
\* to (palette[index].clone() shares the palette's entry).
LoopBody(st, data, mask, bits_per_index, palette_len) ==
    IF st.ret.kind # "None" THEN st
    ELSE IF CrossesWord(st.bit_offset, bits_per_index)
    THEN LET long_idx == st.long_idx + 1 IN
         IF long_idx >= Len(data)
         THEN [st EXCEPT !.long_idx = long_idx, !.bit_offset = 0,
                         !.ret = Panic("data[long_idx]")]
         ELSE LET index == ShrMask(data[long_idx + 1], 0, mask) IN
              IF SkipIndexInvalid(index, palette_len)
              THEN [st EXCEPT !.long_idx = long_idx, !.bit_offset = 0,
                              !.ret = Err("InvalidSectionData")]
              ELSE [st EXCEPT !.long_idx = long_idx,
                              !.bit_offset = bits_per_index,
                              !.blocks = Append(@, index)]
    ELSE IF st.long_idx >= Len(data)
    THEN [st EXCEPT !.ret = Panic("data[long_idx]")]
    ELSE LET index == ShrMask(data[st.long_idx + 1], st.bit_offset, mask)
             bit_offset == st.bit_offset + bits_per_index
         IN IF IndexInvalid(index, palette_len)
            THEN [st EXCEPT !.ret = Err("InvalidSectionData")]
            ELSE IF bit_offset = WordBits
            THEN [st EXCEPT !.long_idx = @ + 1, !.bit_offset = 0,
                            !.blocks = Append(@, index)]
            ELSE [st EXCEPT !.bit_offset = bit_offset,
                            !.blocks = Append(@, index)]

\* n iterations of the loop body, one after the other
RECURSIVE Iterate(_, _, _, _, _, _)
Iterate(st, n, data, mask, bits_per_index, palette_len) ==
    IF n = 0 \/ st.ret.kind # "None" THEN st
    ELSE IF n = 1 THEN LoopBody(st, data, mask, bits_per_index, palette_len)
    ELSE Iterate(Iterate(st, n \div 2, data, mask, bits_per_index, palette_len),
                 n - n \div 2, data, mask, bits_per_index, palette_len)

\* the general case of a section: the length check, the mask and the loop
UnpackSection(sec, palette_len, bits_per_index, bld) ==
    IF ~HasField(sec.data, "LongArray") THEN Err("InvalidField")
    ELSE LET data == MakeData(sec) IN
    IF DataTooShort(Len(data), bits_per_index) THEN Err("InvalidSectionData")
    ELSE LET m == Mask(bits_per_index, bld) IN
    IF m.kind # "Ok" THEN m
    ELSE LET end == Iterate([long_idx |-> 0, bit_offset |-> 0, blocks |-> <<>>,
                             ret |-> NotCalled],
                            SectionBlocks, data, m.mask, bits_per_index, palette_len)
         IN IF end.ret.kind # "None" THEN end.ret
            ELSE [kind |-> "Ok", blocks |-> end.blocks]

\* the body of `for section in original_sections`
DecodeSection(sec, bld) ==
    IF ~HasField(sec.block_states, "Compound") THEN Err("InvalidField")
    ELSE IF ~HasField(sec.palette, "List") THEN Err("InvalidField")
    ELSE LET palette_len == sec.palette.len IN
    IF PaletteRejected(palette_len) THEN Err("InvalidPalette")
    ELSE IF palette_len > 0 /\ ~sec.palette.names THEN Err("InvalidField")
    ELSE LET b == BitsPerIndex(palette_len, bld) IN
    IF b.kind # "Ok" THEN b
    ELSE IF palette_len = 1
    THEN [kind |-> "Ok", blocks |-> [i \in 1..SectionBlocks |-> 0]]
    ELSE UnpackSection(sec, palette_len, b.bits, bld)

\* the loop over the sections: the first failure is the chunk's
RECURSIVE DecodeSections(_, _, _, _)
DecodeSections(original_sections, i, sections, bld) ==
    IF i > Len(original_sections) THEN [kind |-> "Ok", sections |-> sections]
    ELSE LET s == DecodeSection(original_sections[i], bld) IN
         IF s.kind # "Ok" THEN s
         ELSE DecodeSections(original_sections, i + 1,
                             Append(sections, [blocks |-> s.blocks]), bld)

parse_chunk(b, bld) ==
    IF HeaderMissing(b.len) THEN Err("InputTooShort")
    ELSE IF BodyTooShort(b.len, b.L) THEN Err("InputTooShort")
    ELSE IF ~BodySliceInBounds(b.len, b.L) THEN Panic("body[..len]")
    ELSE LET dec == Decompress(b.tag, b.body) IN
    IF dec.kind # "Ok" THEN dec
    ELSE IF dec.doc.kind = "BadNbt" THEN Err("ParseFailed")
    ELSE IF ~HasField(dec.doc.yPos, "Int") THEN Err("InvalidField")
    ELSE IF ~HasField(dec.doc.sections, "List") THEN Err("InvalidField")
    ELSE LET s == DecodeSections(dec.doc.sections.items, 1, <<>>, bld) IN
         IF s.kind # "Ok" THEN s
         ELSE [kind |-> "Ok",
               chunk |-> [y_pos |-> dec.doc.yPos.val, sections |-> s.sections]]

----------------------------------------------------------------------------
(* Inputs of parse_chunk *)

\* index patterns packed into a section's data: pattern k is the sequence
\* i |-> (a*i + c) % p
NumPatterns == 3
\* sections of a document
MaxSections == 2

PatA(k) == IF k = 0 THEN 1 ELSE IF k = 1 THEN 0 ELSE 2 * k + 3
PatC(k, p) == IF k = 0 THEN 0 ELSE IF k = 1 THEN p - 1 ELSE k + 1

IntField(v) == [kind |-> "Int", val |-> v]
ListField(items) == [kind |-> "List", items |-> items]
Palette(p) == [kind |-> "List", len |-> p, names |-> TRUE]
LongArray(n, k, p, bad) ==
    [kind |-> "LongArray", n |-> n, a |-> PatA(k), c |-> PatC(k, p), bad |-> bad]
Section(palette, data) ==
    [block_states |-> [kind |-> "Compound"], palette |-> palette, data |-> data]

\* a section whose data packs pattern k for a palette of p entries, the
\* index at position bad (if any, from 0) replaced by p, in n longs
PackedSection(p, k, bad, n) == Section(Palette(p), LongArray(n, k, p, bad))
\* a section of one voxel: no data is read
UniformSection == Section(Palette(1), NoField)

\* the palette lengths of the round trip, and one for every bits_per_index
RoundTripPalettes == {2, 15, 16, 17, 255, 256, 4096}
WidthPalettes == {2, 17, 33, 65, 129, 257, 513, 1025, 2049}
\* palette lengths below a power of two: p itself fits in the index width
\* and is out of range
CorruptiblePalettes == {2, 15, 17, 255}
\* positions of a corrupted index: the first, the last of the first word,
\* the first of the second word (read after a skip when the width does
\* not divide 64), the last
BadPositions(p) ==
    {0, PerWord(SpecBits(p)) - 1, PerWord(SpecBits(p)), SectionBlocks - 1}

GoodSections ==
    {PackedSection(p, k, -1, PackedLen(p)) :
         p \in RoundTripPalettes, k \in 0..(NumPatterns - 1)}
    \cup {UniformSection}

CorruptSections ==
    UNION {{PackedSection(p, 0, bad, PackedLen(p)) : bad \in BadPositions(p)} :
               p \in CorruptiblePalettes}

\* data of exactly the checked minimum, one long less, and the packed length
ShortSections ==
    UNION {{PackedSection(p, 0, -1, n) :
                n \in {SpecBits(p) * WordBits - 1, SpecBits(p) * WordBits}} :
               p \in WidthPalettes}

\* palettes outside 1..4096, with all-zero data of several lengths
EdgeSections ==
    {Section(Palette(p), LongArray(n, 0, 1, -1)) :
         p \in {0, SectionBlocks + 1},
         n \in {0, PackedLen(SectionBlocks + 1), WordBits * WordBits}}

BrokenSections ==
    { [UniformSection EXCEPT !.block_states = NoField],
      Section(NoField, NoField),
      Section([kind |-> "List", len |-> 2, names |-> FALSE], NoField),
      Section(Palette(2), NoField),
      Section(Palette(2), IntField(0)) }

SectionLists ==
    {<<>>}
    \cup {<<s>> : s \in GoodSections \cup CorruptSections \cup ShortSections
                          \cup EdgeSections \cup BrokenSections}
    \cup (IF MaxSections >= 2
          THEN {<<UniformSection, s>> :
                    s \in CorruptSections \cup EdgeSections \cup BrokenSections}
               \cup {<<PackedSection(2, 0, -1, PackedLen(2)), s>> :
                    s \in {UniformSection, PackedSection(17, 2, -1, PackedLen(17)),
                           PackedSection(15, 0, 0, PackedLen(15))}}
          ELSE {})
    \cup {[i \in 1..n |-> UniformSection] : n \in 2..MaxSections}

Compound(yPos, sections) == [kind |-> "Compound", yPos |-> yPos, sections |-> sections]

Documents ==
    {Compound(IntField(-4), ListField(l)) : l \in SectionLists}
    \cup { Compound(NoField, ListField(<<>>)),
           Compound(IntField(0), NoField),
           Compound(IntField(0), IntField(0)) }

SectorLen == 4096

\* payloads that frame a document: two sectors, the body filling them
DocumentPayloads ==
    {[len |-> 2 * SectorLen, L |-> 2 * SectorLen - HeaderLen, tag |-> COMPRESSION_ZLIB,
      body |-> [format |-> COMPRESSION_ZLIB, doc |-> d]] : d \in Documents}

\* payloads around the framing checks: every length near 5 and near L + 4,
\* every compression tag against every real encoding
FramingPayloads ==
    {[len |-> len, L |-> L, tag |-> tag,
      body |-> [format |-> format,
                doc |-> IF L >= SectorLen - HeaderLen
                        THEN Compound(IntField(0), ListField(<<UniformSection>>))
                        ELSE BadNbt]] :
         len \in {0, 4, 5, 6, 9, 10, SectorLen, 2 * SectorLen},
         L \in {0, 1, 2, 5, 6, SectorLen - 5, SectorLen - 4, SectorLen - 3,
                2 * SectorLen - 5, 2 * SectorLen - 4},
         tag \in 0..4, format \in 1..3}

ChunkInputs == DocumentPayloads \cup FramingPayloads

----------------------------------------------------------------------------
(* The decoder called on a payload *)

InitChunk ==
    /\ build \in Builds
    /\ bytes \in ChunkInputs
    /\ parsed = NotCalled
    /\ region_bytes = NotCalled /\ region = NotCalled
    /\ counted = NotCalled /\ looked_up = NotCalled
    /\ chunk = NotCalled /\ y_range = NotCalled /\ got = NotCalled

ParseChunk ==
    /\ bytes # NotCalled
    /\ parsed = NotCalled
    /\ parsed' = parse_chunk(bytes, build)
    /\ UNCHANGED <<build, bytes, region_bytes, region, counted, looked_up,
                   chunk, y_range, got>>

NextChunk == ParseChunk

SpecChunk == InitChunk /\ [][NextChunk]_vars

----------------------------------------------------------------------------
(* Properties of parse_chunk *)

Called == parsed.kind # "None"

\* the header admits the body, the tag names the body's real encoding and
\* the document has its top-level fields
WellFramed ==
    /\ bytes.len >= bytes.L + HeaderLen
    /\ bytes.tag = bytes.body.format
    /\ bytes.body.doc.kind = "Compound"
    /\ HasField(bytes.body.doc.yPos, "Int")
    /\ HasField(bytes.body.doc.sections, "List")

InputSections == bytes.body.doc.sections.items

\* a section with its fields and a palette of p >= 2 entries
IsGeneral(sec) ==
    /\ HasField(sec.block_states, "Compound")
    /\ HasField(sec.palette, "List")
    /\ sec.palette.names
    /\ sec.palette.len >= 2
    /\ HasField(sec.data, "LongArray")

\* a section whose data is the packing of SectionBlocks indices < p
IsPacked(sec) ==
    /\ IsGeneral(sec)
    /\ sec.data.bad = -1
    /\ sec.data.n = PackedLen(sec.palette.len)

\* C3: parse_chunk fails with InputTooShort when fewer than 5 bytes are
\* there or when the header's length L needs more bytes than are there, and
\* otherwise the L body bytes after the 5-byte header lie inside the input:
\* the body slice is never taken past the end.
C3_BodyInsideInput ==
    Called =>
        /\ (bytes.len < HeaderLen \/ bytes.len < HeaderLen + bytes.L)
               => parsed = Err("InputTooShort")
        /\ parsed # Err("InputTooShort")
               => /\ HeaderLen + bytes.L <= bytes.len
                  /\ parsed # Panic("body[..len]")

\* C4: unpacking the packing of 4096 indices < p gives the 4096 indices
\* back, in order, for p in {2, 15, 16, 17, 255, 256, 4096}.
C4_RoundTrip ==
    (/\ Called
     /\ WellFramed
     /\ \A s \in 1..Len(InputSections) :
            \/ InputSections[s] = UniformSection
            \/ IsPacked(InputSections[s])
               /\ InputSections[s].palette.len \in RoundTripPalettes)
    => /\ parsed.kind = "Ok"
       /\ Len(parsed.chunk.sections) = Len(InputSections)
       /\ \A s \in 1..Len(InputSections) :
              IsPacked(InputSections[s]) =>
                  /\ Len(parsed.chunk.sections[s].blocks) = SectionBlocks
                  /\ \A i \in 1..SectionBlocks :
                         parsed.chunk.sections[s].blocks[i]
                             = OrigIndex(InputSections[s], i - 1)

\* a round trip through a width that does not divide 64, past a word skip
C4_Witness ==
    /\ parsed.kind = "Ok"
    /\ \E s \in 1..Len(InputSections) :
           /\ IsPacked(InputSections[s])
           /\ InputSections[s].palette.len = SectionBlocks
           /\ InputSections[s].data.a > 1
           /\ parsed.chunk.sections[s].blocks[SectionBlocks]
                  = OrigIndex(InputSections[s], SectionBlocks - 1)
           /\ parsed.chunk.sections[s].blocks[SectionBlocks] # 0

\* C5: a section whose palette is empty or has more than 4096 entries makes
\* parse_chunk fail with InvalidPalette, so every section of a decoded chunk
\* has a palette of 1..4096 entries.
C5_PaletteLengthValidated ==
    Called =>
        /\ (/\ WellFramed
            /\ Len(InputSections) >= 1
            /\ HasField(InputSections[1].block_states, "Compound")
            /\ HasField(InputSections[1].palette, "List")
            /\ InputSections[1].palette.len \notin 1..SectionBlocks)
               => parsed = Err("InvalidPalette")
        /\ parsed.kind = "Ok"
               => \A s \in 1..Len(InputSections) :
                      InputSections[s].palette.len \in 1..SectionBlocks

\* the first section that is not decodable as it stands has a palette of
\* p >= 2 entries and data that holds an index >= p
FirstDefectIsBadIndex(s) ==
    /\ \A t \in 1..(s - 1) :
           InputSections[t] = UniformSection \/ IsPacked(InputSections[t])
    /\ IsGeneral(InputSections[s])
    /\ InputSections[s].data.bad >= 0
    /\ InputSections[s].palette.len < 2 ^ SpecBits(InputSections[s].palette.len)
    /\ InputSections[s].data.n >= PackedLen(InputSections[s].palette.len)

\* C6: with a palette of p >= 2 entries, an extracted index >= p at any
\* position makes parse_chunk fail with InvalidSectionData; every cell of
\* every section of a decoded chunk is an entry of that section's palette.
C6_OutOfRangeIndexRejected ==
    Called =>
        /\ (WellFramed /\ \E s \in 1..Len(InputSections) : FirstDefectIsBadIndex(s))
               => parsed = Err("InvalidSectionData")
        /\ parsed.kind = "Ok"
               => \A s \in 1..Len(InputSections) :
                      \A i \in 1..SectionBlocks :
                          /\ parsed.chunk.sections[s].blocks[i] >= 0
                          /\ parsed.chunk.sections[s].blocks[i]
                                 < InputSections[s].palette.len

\* the out-of-range index is the first of a word entered after a skip
C6_Witness ==
    /\ parsed = Err("InvalidSectionData")
    /\ WellFramed
    /\ \E s \in 1..Len(InputSections) :
           /\ FirstDefectIsBadIndex(s)
           /\ WordBits % SpecBits(InputSections[s].palette.len) # 0
           /\ InputSections[s].data.bad
                  = PerWord(SpecBits(InputSections[s].palette.len))

\* C10: data that passes the length check is long enough for the loop: no
\* word is read at or past data.len().
C10_LengthCheckSuffices ==
    parsed.kind = "Panic" => parsed.at # "data[long_idx]"

----------------------------------------------------------------------------
(* Region (src/src/region.rs) *)

\* cells of a region, and the cells along one side of it
RegionCells == 1024
RegionSide == 32
\* the two 4096-byte tables at the start of a region
RegionHeaderLen == 8192

\* Option<Chunk>
None == [kind |-> "Absent"]
Some(c) == [kind |-> "Some", chunk |-> c]

\* u32::from_be_bytes of four bytes (a tuple, first byte first)
FromBeBytes(b) == ((b[1] * 256 + b[2]) * 256 + b[3]) * 256 + b[4]

\* ((location[0] as u32) << 16) | ((location[1] as u32) << 8) | location[2]
Offset(location) == (location[1] * 256 + location[2]) * 256 + location[3]

\* the size checks in the order the code makes them, the other way round
ValidateSizeMultipleFirst(len) ==
    IF len % SectorLen # 0 THEN Err("InputInvalidSize")
    ELSE IF len < RegionHeaderLen THEN Err("InputTooShort")
    ELSE [kind |-> "Ok"]

\* len < 8192, then !len.is_multiple_of(4096)
ValidateSize(len) ==
    IF len < RegionHeaderLen THEN Err("InputTooShort")
    ELSE IF len % SectorLen # 0 THEN Err("InputInvalidSize")
    ELSE [kind |-> "Ok"]

\* The buffer.  It is described by its length, the two cells whose table
\* entries are not zero with their (location, timestamp) entries a and b, and
\* the payloads its sectors hold: p at sector 2, q at every later one.
LocationAt(rb, i) ==
    IF i = rb.cells[1] THEN rb.a[1] ELSE IF i = rb.cells[2] THEN rb.b[1]
    ELSE <<0, 0, 0, 0>>
TimestampAt(rb, i) ==
    IF i = rb.cells[1] THEN rb.a[2] ELSE IF i = rb.cells[2] THEN rb.b[2]
    ELSE <<0, 0, 0, 0>>
SectorAt(rb, s) == IF s = 2 THEN rb.p ELSE rb.q

\* What parse_chunk reads of &bytes[start..end]: the slice's length, the
\* header (L and the tag) in its first five bytes, and the body after it.
\* A sector from 2 on holds what the input says; sectors 0 and 1 are the
\* location and the timestamp table, whose first entries are then the header.
Slice(rb, start, end) ==
    LET sector == start \div SectorLen
        first == IF sector = 0 THEN LocationAt(rb, 0) ELSE TimestampAt(rb, 0)
        second == IF sector = 0 THEN LocationAt(rb, 1) ELSE TimestampAt(rb, 1)
    IN IF end - start < HeaderLen
       THEN [len |-> end - start, L |-> 0, tag |-> 0,
             body |-> [format |-> 0, doc |-> BadNbt]]
       ELSE IF sector < 2
       THEN [len |-> end - start, L |-> FromBeBytes(first), tag |-> second[1],
             body |-> [format |-> 0, doc |-> BadNbt]]
       ELSE [len |-> end - start, L |-> SectorAt(rb, sector).L,
             tag |-> SectorAt(rb, sector).tag, body |-> SectorAt(rb, sector).body]

\* the closure mapped over the 1024 (location, timestamp) pairs
DecodeCell(rb, i, bld) ==
    LET timestamp == FromBeBytes(TimestampAt(rb, i))
        sector_count == LocationAt(rb, i)[4]
        offset == Offset(LocationAt(rb, i))
    IN IF offset = 0 /\ sector_count = 0 /\ timestamp = 0 THEN None
       ELSE LET start == offset * SectorLen
                end == start + sector_count * SectorLen
            IN IF end > rb.len THEN Panic("bytes[offset..]")
               ELSE LET r == parse_chunk(Slice(rb, start, end), bld) IN
                    IF r.kind = "Panic" THEN r
                    ELSE IF r.kind = "Ok" THEN Some(r.chunk)
                    ELSE None

\* Region::parse_bytes: the cells are decoded in order, and the first panic
\* unwinds out of parse_bytes
parse_bytes(rb, bld) ==
    LET size == ValidateSize(rb.len) IN
    IF size.kind # "Ok" THEN size
    ELSE LET chunks == [i \in 0..(RegionCells - 1) |-> DecodeCell(rb, i, bld)]
             panicked == {i \in 0..(RegionCells - 1) : chunks[i].kind = "Panic"}
         IN IF panicked # {}
            THEN chunks[CHOOSE i \in panicked : \A j \in panicked : i <= j]
            ELSE [kind |-> "Ok", region |-> [chunks |-> chunks]]

\* a miscount: the cells that are present, less one
count_chunks_less_one(r) ==
    RegionCells - 1
        - (Cardinality({i \in 0..(RegionCells - 1) : r.chunks[i] = None}) % 65536)

\* 1024 - self.chunks.iter().filter(|&chunk| chunk.is_none()).count() as u16
count_chunks(r) ==
    RegionCells
        - (Cardinality({i \in 0..(RegionCells - 1) : r.chunks[i] = None}) % 65536)

get_chunk(r, x, z) ==
    IF x >= RegionSide \/ z >= RegionSide THEN None
    ELSE LET index == x + z * RegionSide IN r.chunks[index]

----------------------------------------------------------------------------
(* Inputs of Region::parse_bytes *)

\* sectors of the largest buffer
MaxSectors == 4

ZeroEntry == <<0, 0, 0, 0>>
\* a location entry of a 24-bit offset and a sector count
Location(offset, sector_count) ==
    <<offset \div 65536, (offset \div 256) % 256, offset % 256, sector_count>>

SmallDocument == Compound(IntField(-4), ListField(<<UniformSection>>))

\* a payload that decodes
SmallPayload ==
    [len |-> 0, L |-> 100, tag |-> COMPRESSION_ZLIB,
     body |-> [format |-> COMPRESSION_ZLIB, doc |-> SmallDocument]]

\* what a sector can hold: a payload header and the body it starts
SectorPayloads ==
    { SmallPayload,
      [len |-> 0, L |-> SectorLen - HeaderLen, tag |-> COMPRESSION_GZIP,
       body |-> [format |-> COMPRESSION_GZIP,
                 doc |-> Compound(IntField(0), ListField(
                     <<UniformSection, PackedSection(17, 2, -1, PackedLen(17))>>))]],
      [len |-> 0, L |-> SectorLen - HeaderLen, tag |-> COMPRESSION_ZLIB,
       body |-> [format |-> COMPRESSION_ZLIB,
                 doc |-> Compound(IntField(0), ListField(
                     <<PackedSection(15, 0, 0, PackedLen(15))>>))]],
      [len |-> 0, L |-> 100, tag |-> 4,
       body |-> [format |-> COMPRESSION_ZLIB, doc |-> SmallDocument]],
      [len |-> 0, L |-> SectorLen - 4, tag |-> COMPRESSION_RAW,
       body |-> [format |-> COMPRESSION_RAW, doc |-> SmallDocument]],
      [len |-> 0, L |-> SectorLen + 100, tag |-> COMPRESSION_RAW,
       body |-> [format |-> COMPRESSION_RAW, doc |-> SmallDocument]] }

\* (location, timestamp) of the first varied cell: absent, an empty slice,
\* one and two sectors at sectors 2 and 3, a far offset, the tables themselves
EntriesA ==
    { <<ZeroEntry, ZeroEntry>>,
      <<ZeroEntry, <<0, 0, 0, 1>> >>,
      <<Location(2, 0), ZeroEntry>>,
      <<Location(2, 1), <<0, 0, 0, 1>> >>,
      <<Location(2, 2), <<103, 4, 5, 6>> >>,
      <<Location(3, 1), ZeroEntry>>,
      <<Location(65536, 1), <<0, 0, 0, 1>> >>,
      <<Location(0, 1), ZeroEntry>>,
      <<Location(1, 1), <<0, 0, 4, 0>> >> }

\* of the first cell when a second varies with it
PairedEntriesA ==
    { <<ZeroEntry, <<0, 0, 0, 1>> >>,
      <<Location(2, 1), <<0, 0, 0, 1>> >>,
      <<Location(65536, 1), <<0, 0, 0, 1>> >> }

\* and the payloads at sector 2 then: one that decodes, one with an index
\* out of range, one whose header declares the sector's length less 4
PairedPayloads ==
    {p \in SectorPayloads :
        \/ p = SmallPayload
        \/ p.L = SectorLen - 4
        \/ p.L = SectorLen - HeaderLen /\ p.tag = COMPRESSION_ZLIB}

\* of the second: absent, a sector of its own, the first cell's sector
EntriesB ==
    { <<ZeroEntry, ZeroEntry>>,
      <<Location(3, 1), <<0, 0, 0, 1>> >>,
      <<Location(2, 1), <<0, 0, 0, 1>> >>,
      <<Location(MaxSectors, 1), <<0, 0, 0, 1>> >> }

\* the cells that are varied: (0,0) with (1,1), and (31,0) with (31,31)
CellPairs == {<<0, RegionSide + 1>>, <<RegionSide - 1, RegionCells - 1>>}

\* a buffer of n sectors that passes the size checks
SizedBuffer(n, cells, a, b, p, q) ==
    [len |-> n * SectorLen, cells |-> cells, a |-> a, b |-> b, p |-> p, q |-> q]

\* a buffer of any other length, whatever it holds
UnsizedBuffer(len) ==
    [len |-> len, cells |-> <<0, 1>>, a |-> <<ZeroEntry, ZeroEntry>>,
     b |-> <<ZeroEntry, ZeroEntry>>, p |-> SmallPayload, q |-> SmallPayload]

UnsizedLens ==
    {0, 1, SectorLen, RegionHeaderLen - 1, RegionHeaderLen + 1,
     SectorLen * MaxSectors - 1, SectorLen * MaxSectors + 1,
     2 * SectorLen + HeaderLen}

\* coordinates get_chunk is called with
Coordinates == {0, 1, RegionSide - 1, RegionSide}

----------------------------------------------------------------------------
(* The region parsed and queried *)

InitRegion ==
    /\ build \in Builds
    /\ \/ \E len \in UnsizedLens : region_bytes = UnsizedBuffer(len)
       \/ \E n \in 2..MaxSectors, a \in EntriesA, p \in SectorPayloads :
              region_bytes = SizedBuffer(n, CHOOSE c \in CellPairs : c[1] = 0,
                                         a, <<ZeroEntry, ZeroEntry>>, p, SmallPayload)
       \/ \E n \in 2..MaxSectors, cells \in CellPairs, a \in PairedEntriesA,
              b \in EntriesB, p \in PairedPayloads :
              region_bytes = SizedBuffer(n, cells, a, b, p, SmallPayload)
    /\ region = NotCalled
    /\ counted = NotCalled /\ looked_up = NotCalled
    /\ bytes = NotCalled /\ parsed = NotCalled
    /\ chunk = NotCalled /\ y_range = NotCalled /\ got = NotCalled

ParseBytes ==
    /\ region_bytes # NotCalled
    /\ region = NotCalled
    /\ region' = parse_bytes(region_bytes, build)
    /\ UNCHANGED <<build, bytes, parsed, region_bytes, counted, looked_up,
                   chunk, y_range, got>>

\* the queries do not change the region: one call of each is every call
CountChunks ==
    /\ region.kind = "Ok"
    /\ counted = NotCalled
    /\ counted' = [kind |-> "Ok", count |-> count_chunks(region.region)]
    /\ UNCHANGED <<build, bytes, parsed, region_bytes, region, looked_up,
                   chunk, y_range, got>>

GetChunk ==
    /\ region.kind = "Ok"
    /\ looked_up = NotCalled
    /\ \E x \in Coordinates, z \in Coordinates :
           looked_up' = [kind |-> "Ok", x |-> x, z |-> z,
                         chunk |-> get_chunk(region.region, x, z)]
    /\ UNCHANGED <<build, bytes, parsed, region_bytes, region, counted,
                   chunk, y_range, got>>

NextRegion == ParseBytes \/ CountChunks \/ GetChunk

SpecRegion == InitRegion /\ [][NextRegion]_vars

----------------------------------------------------------------------------
(* Properties of Region *)

RegionCalled == region.kind # "None"

SizeOk ==
    region_bytes.len >= RegionHeaderLen /\ region_bytes.len % SectorLen = 0

Cells == 0..(RegionCells - 1)

\* cell i's entry is all zero
EntryAbsent(rb, i) ==
    /\ Offset(LocationAt(rb, i)) = 0
    /\ LocationAt(rb, i)[4] = 0
    /\ FromBeBytes(TimestampAt(rb, i)) = 0

\* the byte range [offset*4096, offset*4096 + sector_count*4096) of cell i
RangeStart(rb, i) == Offset(LocationAt(rb, i)) * SectorLen
RangeEnd(rb, i) == RangeStart(rb, i) + LocationAt(rb, i)[4] * SectorLen

\* the buffer with cell j's location and timestamp zeroed
WithoutCell(rb, j) ==
    IF j = rb.cells[1] THEN [rb EXCEPT !.a = <<ZeroEntry, ZeroEntry>>]
    ELSE IF j = rb.cells[2] THEN [rb EXCEPT !.b = <<ZeroEntry, ZeroEntry>>]
    ELSE rb

\* C1: in a buffer of a valid size, a cell whose byte range ends past the
\* end of the buffer is a decode failure of that cell only: parse_bytes
\* returns a Region and the cell is absent in it.
C1_OutOfRangeCellIsAbsent ==
    (RegionCalled /\ SizeOk) =>
        \A i \in Cells :
            (~EntryAbsent(region_bytes, i)
             /\ RangeEnd(region_bytes, i) > region_bytes.len)
            => /\ region.kind = "Ok"
               /\ region.region.chunks[i] = None

\* C2: when parse_chunk fails on one cell with a ChunkParseError,
\* parse_bytes still returns a Region, the cell is absent, and every other
\* cell holds what it holds when the failing cell's entry is absent.
C2_CellsDecodedIndependently ==
    (RegionCalled /\ SizeOk) =>
        \A j \in Cells :
            (/\ ~EntryAbsent(region_bytes, j)
             /\ RangeEnd(region_bytes, j) <= region_bytes.len
             /\ parse_chunk(Slice(region_bytes, RangeStart(region_bytes, j),
                                  RangeEnd(region_bytes, j)), build).kind = "Err")
            => /\ region.kind = "Ok"
               /\ region.region.chunks[j] = None
               /\ LET other == parse_bytes(WithoutCell(region_bytes, j), build)
                  IN /\ other.kind = "Ok"
                     /\ \A i \in Cells \ {j} :
                            region.region.chunks[i] = other.region.chunks[i]

\* C8: a buffer shorter than 8192 bytes fails with InputTooShort, whether
\* or not its length is a multiple of 4096; a buffer of at least 8192 bytes
\* whose length is not a multiple of 4096 fails with InputInvalidSize.
C8_SizeValidation ==
    RegionCalled =>
        /\ region_bytes.len < RegionHeaderLen => region = Err("InputTooShort")
        /\ (region_bytes.len >= RegionHeaderLen /\ region_bytes.len % SectorLen # 0)
               => region = Err("InputInvalidSize")

\* a buffer both too short and not a multiple of 4096
C8_Witness ==
    /\ region = Err("InputTooShort")
    /\ region_bytes.len > SectorLen
    /\ region_bytes.len % SectorLen # 0

\* 8192 zero bytes
IsEmptyRegion(rb) ==
    /\ rb.len = RegionHeaderLen
    /\ \A i \in Cells : LocationAt(rb, i) = ZeroEntry /\ TimestampAt(rb, i) = ZeroEntry

\* C9: count_chunks() is the number of cells (x, z), 0 <= x, z < 32, for
\* which get_chunk(x, z) is present; 8192 zero bytes parse to a region
\* with count_chunks() = 0 and no chunk at any (x, z).
C9_CountMatchesLookups ==
    /\ counted.kind = "Ok" =>
           counted.count =
               Cardinality({c \in (0..(RegionSide - 1)) \X (0..(RegionSide - 1)) :
                               get_chunk(region.region, c[1], c[2]).kind = "Some"})
    /\ (RegionCalled /\ IsEmptyRegion(region_bytes)) =>
           /\ region.kind = "Ok"
           /\ counted.kind = "Ok" => counted.count = 0
           /\ looked_up.kind = "Ok" => looked_up.chunk = None

\* a region with a chunk found by get_chunk and counted, and a cell whose
\* entry is not zero but which holds no chunk
C9_Witness ==
    /\ counted.kind = "Ok" /\ counted.count = 1
    /\ looked_up.kind = "Ok" /\ looked_up.chunk.kind = "Some"
    /\ looked_up.x = RegionSide - 1 /\ looked_up.z = RegionSide - 1
    /\ \E i \in Cells : ~EntryAbsent(region_bytes, i) /\ region.region.chunks[i] = None

----------------------------------------------------------------------------
(* Chunk: get_y_range, get; Section: get_block *)

\* blocks along each side of a section
SectionSide == 16
\* width of the i16 of Range<i16>
I16Bits == 16

I16Min == -(2 ^ (I16Bits - 1))
I16Max == 2 ^ (I16Bits - 1) - 1

SomeBlock(b) == [kind |-> "Some", block |-> b]

\* `v as i16`: the low 16 bits, as a signed number
AsI16(v) == ((v - I16Min) % (2 ^ I16Bits)) + I16Min

\* i16 arithmetic: an overflow panics in a debug build and wraps in a
\* release build
CheckedI16(v, bld) ==
    IF v >= I16Min /\ v <= I16Max THEN [kind |-> "Ok", val |-> v]
    ELSE IF bld = "debug" THEN Panic("i16 overflow")
    ELSE [kind |-> "Ok", val |-> AsI16(v)]

get_y_range(c, bld) ==
    LET start == CheckedI16(AsI16(c.y_pos) * SectionSide, bld) IN
    IF start.kind # "Ok" THEN start
    ELSE LET span == CheckedI16(AsI16(Len(c.sections)) * SectionSide, bld) IN
    IF span.kind # "Ok" THEN span
    ELSE LET end == CheckedI16(start.val + span.val, bld) IN
    IF end.kind # "Ok" THEN end
    ELSE [kind |-> "Ok", start |-> start.val, end |-> end.val]

\* Range<i16>::contains
Contains(range, y) == range.start <= y /\ y < range.end

\* ((((y << 4) | z) << 4) | x), for x, y, z < 16
get_block_pos(x, y, z) == (y * SectionSide + z) * SectionSide + x

get_block(section, x, y, z) ==
    IF x >= SectionSide \/ y >= SectionSide \/ z >= SectionSide THEN None
    ELSE SomeBlock(section.blocks[get_block_pos(x, y, z) + 1])

\* y_pos * 16 and the subtraction are i32 operations: the chunks below have
\* |y_pos| < 2^26, so neither overflows.  A negative local_y cast to usize
\* is at least 2^63, and its section index is past the end of every Vec.
get(c, x, y, z, bld) ==
    IF x >= SectionSide THEN [kind |-> "Ok", block |-> None]
    ELSE LET range == get_y_range(c, bld) IN
    IF range.kind # "Ok" THEN range
    ELSE IF ~Contains(range, y) \/ z >= SectionSide
    THEN [kind |-> "Ok", block |-> None]
    ELSE LET local_y == y - c.y_pos * SectionSide
             section == local_y \div SectionSide
             block == local_y % SectionSide
         IN IF local_y < 0 \/ section >= Len(c.sections)
            THEN Panic("sections[section]")
            ELSE [kind |-> "Ok",
                  block |-> get_block(c.sections[section + 1], x, block, z)]

----------------------------------------------------------------------------
(* Inputs of the Chunk accessors *)

\* section k of a test chunk: block i holds palette entry (i + 7k) % 4096,
\* so that a block names its section and its position
TestSection(k) ==
    [blocks |-> [i \in 1..SectionBlocks |-> (i - 1 + 7 * k) % SectionBlocks]]

TestChunk(yPos, n) == [y_pos |-> yPos, sections |-> [k \in 1..n |-> TestSection(k)]]

\* the overworld chunk (yPos -4, 24 sections), and chunks at and past the
\* values of yPos whose block height is the least and the greatest i16
TallSections == 24
FewSections == {1, 3}
YPositions ==
    {-4, 0, 20,
     I16Max \div SectionSide, I16Max \div SectionSide + 1,
     I16Min \div SectionSide, I16Min \div SectionSide - 1,
     2 ^ I16Bits - 4}

GetXZ == {0, SectionSide - 1, SectionSide}
GetY(c) ==
    LET lo == AsI16(AsI16(c.y_pos) * SectionSide)
        hi == AsI16(lo + Len(c.sections) * SectionSide)
    IN {I16Min, I16Max, 0, lo, hi, AsI16(lo - 1), AsI16(hi - 1), AsI16(lo + SectionSide)}

InitGet ==
    /\ build \in Builds
    /\ \/ chunk = TestChunk(-4, TallSections)
       \/ \E yPos \in YPositions, n \in FewSections : chunk = TestChunk(yPos, n)
    /\ y_range = NotCalled /\ got = NotCalled
    /\ bytes = NotCalled /\ parsed = NotCalled
    /\ region_bytes = NotCalled /\ region = NotCalled
    /\ counted = NotCalled /\ looked_up = NotCalled

GetYRange ==
    /\ chunk # NotCalled
    /\ y_range = NotCalled
    /\ y_range' = get_y_range(chunk, build)
    /\ UNCHANGED <<build, bytes, parsed, region_bytes, region, counted,
                   looked_up, chunk, got>>

Get ==
    /\ chunk # NotCalled
    /\ got = NotCalled
    /\ \E x \in GetXZ, z \in GetXZ, y \in GetY(chunk) :
           got' = [kind |-> "Called", x |-> x, y |-> y, z |-> z,
                   ret |-> get(chunk, x, y, z, build)]
    /\ UNCHANGED <<build, bytes, parsed, region_bytes, region, counted,
                   looked_up, chunk, y_range>>

NextGet == GetYRange \/ Get

SpecGet == InitGet /\ [][NextGet]_vars

----------------------------------------------------------------------------
(* Properties of the Chunk accessors *)

RangeLow(c) == c.y_pos * SectionSide
RangeHigh(c) == c.y_pos * SectionSide + Len(c.sections) * SectionSide

\* what get(x, y, z) is specified to return
MappedBlock(c, x, y, z) ==
    IF x >= SectionSide \/ z >= SectionSide \/ y < RangeLow(c) \/ y >= RangeHigh(c)
    THEN None
    ELSE LET local_y == y - RangeLow(c)
         IN SomeBlock(c.sections[(local_y \div SectionSide) + 1]
                         .blocks[get_block_pos(x, local_y % SectionSide, z) + 1])

\* C7: for every chunk with a 32-bit yPos and n sections, get_y_range() is
\* [yPos*16, yPos*16 + n*16), and get(x, y, z) is none if x >= 16, z >= 16
\* or y is outside that range, and otherwise the block of section
\* (y - yPos*16) >> 4 at local (x, (y - yPos*16) & 0xF, z).
C7_CoordinateMapping ==
    /\ y_range.kind # "None" =>
           y_range = [kind |-> "Ok", start |-> RangeLow(chunk),
                      end |-> RangeHigh(chunk)]
    /\ got.kind # "None" =>
           got.ret = [kind |-> "Ok",
                      block |-> MappedBlock(chunk, got.x, got.y, got.z)]

====
